---- MODULE Spec2Model ----
(***************************************************************************)
(* A model of the neurosymbolic storyteller core engine                    *)
(* (src/src/storyteller_engine.py): the World State (StoryState), the      *)
(* entity extractor (StoryParser), the rule engine (SymbolicValidator),    *)
(* the generator with its placeholder fallback (NeuralGenerator) and the   *)
(* refinement loop (StorytellerEngine.generate_and_improve).               *)
(*                                                                         *)
(* A text is a sequence of tokens: words, the full stop "." and the line   *)
(* break "NL".  Regular expressions and substring tests of the source are  *)
(* evaluated on tokens: a word of the source is one token, one blank       *)
(* separates two neighbouring words, "NL" stands for "\n".                 *)
(***************************************************************************)
EXTENDS Integers, Sequences, FiniteSets, TLC

\* ------------------------------------------------------------------ bounds

\* Largest iteration bound (max_iterations) an engine is constructed with.
MaxBound == 3

\* Default of max_iterations.
DefaultMaxIterations == 3

\* sentence_idx of a violation that is not localised (Python's None).
NoIdx == -1

\* ------------------------------------------------------------------- texts

\* The deterministic placeholder narrative, abbreviated to the tokens the
\* extractor and the rules react to (capitalised words, "<name> <verb>").
MockStory ==
    << "Sarah", "walked", ".", "NL",
       "She", "ran", ".", "NL",
       "Tom", "said", "." >>

\* Texts the generation service may answer with.
StoryDeath == << "Tom", "died", ".", "Later", "Tom", "said", "hello", "." >>
StoryCalm == << "Mary", "walked", "in", "Paris", ".", "The", "end", "." >>
StoryTime ==
    << "Mary", "saw", "Paris", "at", "morning", ".", "In", "the", "evening",
       "they", "continued", "from", "the", "morning", "." >>
StoryTrait ==
    << "Tom", "was", "brave", ".", "evening", "morning", ".",
       "Tom", "is", "dead", ".", "Tom", "ran", "." >>

ServiceStories == {StoryDeath, StoryCalm, StoryTime, StoryTrait}

Prompts == {"", "a story"}

\* str.lower() on one token.
Lower(w) ==
    CASE w = "Sarah" -> "sarah"
      [] w = "She" -> "she"
      [] w = "Tom" -> "tom"
      [] w = "Mary" -> "mary"
      [] w = "Paris" -> "paris"
      [] w = "Later" -> "later"
      [] w = "In" -> "in"
      [] w = "The" -> "the"
      [] OTHER -> w

\* A token matched by \w+ (a word, not punctuation or white space).
IsWord(w) == w \notin {".", "NL"}

\* A token matched by \b[A-Z][a-z]+\b.
IsCapitalised(w) == IsWord(w) /\ Lower(w) # w

RECURSIVE SplitFrom(_, _)
SplitFrom(t, cur) ==
    IF t = << >> THEN << cur >>
    ELSE IF Head(t) = "." THEN << cur >> \o SplitFrom(Tail(t), << >>)
    ELSE SplitFrom(Tail(t), Append(cur, Head(t)))

\* text.split('.'): the pieces between full stops, the last (maybe empty) included.
SplitDot(text) == SplitFrom(text, << >>)

RECURSIVE Strip(_)
Strip(s) ==
    IF s = << >> THEN s
    ELSE IF Head(s) = "NL" THEN Strip(Tail(s))
    ELSE IF s[Len(s)] = "NL" THEN Strip(SubSeq(s, 1, Len(s) - 1))
    ELSE s

RECURSIVE MapStrip(_)
MapStrip(ss) == IF ss = << >> THEN << >> ELSE << Strip(Head(ss)) >> \o MapStrip(Tail(ss))

NonEmpty(s) == s # << >>

\* The recognition service's sentences, stripped: [sent.text.strip() for sent in doc.sents].
ServiceSentences(text) == SelectSeq(MapStrip(SplitDot(text)), NonEmpty)

\* Entity labels of the recognition service.
PersonNames == {"Sarah", "Tom", "Mary"}
PlaceNames == {"Paris"}

Range(f) == {f[i] : i \in DOMAIN f}

\* All orders in which the elements of a finite set can be enumerated.
Orders(S) == {f \in [1..Cardinality(S) -> S] : Range(f) = S}

\* ------------------------------------------------------------- World State

CharacterFields == {"name", "status", "location", "traits", "last_mentioned"}

\* The defaults of the Character dataclass (traits None becomes []).
CharacterDefaults ==
    [status |-> "alive", location |-> "unknown", traits |-> << >>, last_mentioned |-> 0]

\* Mutant: the constructor drops the keyword arguments.
NewCharacterDefaults(name, kwargs) ==
    [f \in CharacterFields |-> IF f = "name" THEN name ELSE CharacterDefaults[f]]

\* Character(name=name, **kwargs), kwargs a function from field names to values.
NewCharacter(name, kwargs) ==
    [f \in CharacterFields |->
        IF f = "name" THEN name
        ELSE IF f \in DOMAIN kwargs THEN kwargs[f]
        ELSE CharacterDefaults[f]]

\* StoryState(): characters is the dict in insertion order, one record per key.
FreshState ==
    [characters |-> << >>, events |-> << >>, world_facts |-> << >>,
     locations |-> {}, genre |-> "general"]

\* The keys of story_state.characters.
Names(ss) == {ss.characters[i].name : i \in DOMAIN ss.characters}

IndexOf(ss, name) == CHOOSE i \in DOMAIN ss.characters : ss.characters[i].name = name

\* story_state.characters[name]
CharOf(ss, name) == ss.characters[IndexOf(ss, name)]

\* Mutant: an update rebuilds the character from the defaults.
MergeOverwrite(char, kwargs) ==
    [f \in CharacterFields |->
        IF f = "name" THEN char.name
        ELSE IF f \in DOMAIN kwargs THEN kwargs[f]
        ELSE CharacterDefaults[f]]

\* setattr for every supplied key the character has.
MergeFields(char, kwargs) ==
    [f \in CharacterFields |->
        IF f \in DOMAIN kwargs /\ f \in DOMAIN char THEN kwargs[f] ELSE char[f]]

\* Character(name=name, **kwargs) raises TypeError: an unexpected keyword argument.
AddCharacterRaises(ss, name, kwargs) ==
    name \notin Names(ss) /\ ~(DOMAIN kwargs \subseteq CharacterFields \ {"name"})

\* Mutant: an existing character is replaced by a new one.
AddCharacterReplace(ss, name, kwargs) ==
    IF name \in Names(ss)
    THEN [ss EXCEPT !.characters[IndexOf(ss, name)] = NewCharacter(name, kwargs)]
    ELSE [ss EXCEPT !.characters = Append(@, NewCharacter(name, kwargs))]

AddCharacter(ss, name, kwargs) ==
    IF name \in Names(ss)
    THEN [ss EXCEPT !.characters[IndexOf(ss, name)] = MergeFields(@, kwargs)]
    ELSE [ss EXCEPT !.characters = Append(@, NewCharacter(name, kwargs))]

\* story_state.to_dict(): the characters field by field, the locations as a list.
ToDict(ss) ==
    [characters |-> ss.characters, events |-> ss.events,
     world_facts |-> ss.world_facts, locations |-> ss.locations,
     genre |-> ss.genre]

\* ---------------------------------------------------------------- extractor

RECURSIVE SkipSpace(_)
\* \s+ between two words: the blank, and any line breaks.
SkipSpace(s) == IF s # << >> /\ Head(s) = "NL" THEN SkipSpace(Tail(s)) ELSE s

\* s begins with the words of phrase, one blank apart, case ignored.
StartsWith(s, phrase) ==
    /\ Len(s) >= Len(phrase)
    /\ \A k \in DOMAIN phrase : Lower(s[k]) = phrase[k]

DeathPhrases == {<< "died" >>, << "was", "killed" >>, << "perished" >>, << "passed", "away" >>}
DeadWords == {<< "dead" >>, << "deceased" >>}

\* (\w+)\s+(died|was killed|perished|passed away) matches with group 1 at i.
DiedAt(s, i) ==
    /\ IsWord(s[i])
    /\ \E p \in DeathPhrases : StartsWith(SkipSpace(SubSeq(s, i + 1, Len(s))), p)

\* (\w+)\s+is\s+(dead|deceased) matches with group 1 at i.
IsDeadAt(s, i) ==
    /\ IsWord(s[i])
    /\ LET r == SkipSpace(SubSeq(s, i + 1, Len(s)))
       IN  /\ StartsWith(r, << "is" >>)
           /\ \E p \in DeadWords : StartsWith(SkipSpace(Tail(r)), p)

\* group(1) of every death-pattern match in the sentence.
DeathMatches(sentence) ==
    {sentence[i] : i \in {j \in DOMAIN sentence : DiedAt(sentence, j) \/ IsDeadAt(sentence, j)}}

\* Mutant: the death patterns write another word for the status.
MarkDeceased(ss, names) ==
    [ss EXCEPT !.characters =
        [i \in DOMAIN @ |-> IF @[i].name \in names THEN [@[i] EXCEPT !.status = "deceased"] ELSE @[i]]]

\* if char_name in story_state.characters: status = "dead"
MarkDead(ss, names) ==
    [ss EXCEPT !.characters =
        [i \in DOMAIN @ |-> IF @[i].name \in names THEN [@[i] EXCEPT !.status = "dead"] ELSE @[i]]]

RECURSIVE RegisterEntitiesNoIndex(_, _, _, _)
\* Mutant: a person is registered without the index of the sentence.
RegisterEntitiesNoIndex(sentence, idx, ss, miss) ==
    IF sentence = << >> THEN ss
    ELSE LET w == Head(sentence)
             ss1 == IF w \in miss THEN ss
                    ELSE IF w \in PersonNames
                         THEN AddCharacter(ss, w, << >>)
                    ELSE IF w \in PlaceNames
                         THEN [ss EXCEPT !.locations = @ \cup {w}]
                    ELSE ss
         IN  RegisterEntitiesNoIndex(Tail(sentence), idx, ss1, miss)

RECURSIVE RegisterEntities(_, _, _, _)
\* for ent in sent_doc.ents: the entities the service missed are in miss.
RegisterEntities(sentence, idx, ss, miss) ==
    IF sentence = << >> THEN ss
    ELSE LET w == Head(sentence)
             ss1 == IF w \in miss THEN ss
                    ELSE IF w \in PersonNames
                         THEN AddCharacter(ss, w, [last_mentioned |-> idx])
                    ELSE IF w \in PlaceNames
                         THEN [ss EXCEPT !.locations = @ \cup {w}]
                    ELSE ss
         IN  RegisterEntities(Tail(sentence), idx, ss1, miss)

\* Mutant: the death patterns are applied before the entities are registered.
ParseSentenceDeathFirst(sentence, idx, ss, miss) ==
    RegisterEntities(sentence, idx, MarkDead(ss, DeathMatches(sentence)), miss)

\* One pass of the loop over the sentences: the entities, then the death patterns.
ParseSentence(sentence, idx, ss, miss) ==
    MarkDead(RegisterEntities(sentence, idx, ss, miss), DeathMatches(sentence))

RECURSIVE ParseSentences(_, _, _, _)
ParseSentences(sentences, idx, ss, miss) ==
    IF sentences = << >> THEN ss
    ELSE ParseSentences(Tail(sentences), idx + 1,
                        ParseSentence(Head(sentences), idx, ss, miss), miss)

\* Mutant: the World State is built anew from each text.
AdvancedParseReset(text, ss, miss) ==
    ParseSentences(ServiceSentences(text), 0, FreshState, miss)

\* _advanced_parse when the service answers every call.
AdvancedParse(text, ss, miss) == ParseSentences(ServiceSentences(text), 0, ss, miss)

\* The words the service can label in a text.
Entities(text) == Range(text) \cap (PersonNames \cup PlaceNames)

StopList == {"The", "A", "An", "This", "That"}

\* set(re.findall(name_pattern, text)) without the stop list.
CandidateNames(text) == {w \in Range(text) : IsCapitalised(w) /\ w \notin StopList}

RECURSIVE AddAll(_, _)
AddAll(ss, names) ==
    IF names = << >> THEN ss
    ELSE AddAll(AddCharacter(ss, Head(names), << >>), Tail(names))

\* _simple_parse, the set iterated in the order given.
SimpleParse(text, ss, order) == AddAll(ss, order)

\* -------------------------------------------------------------- rule engine

StoryViolation(rule, sev, descr, idx, sugg) ==
    [rule_name |-> rule, severity |-> sev, description |-> descr,
     sentence_idx |-> idx, suggestion |-> sugg]

ActionVerbs == << "said", "walked", "ran", "looked" >>

\* pattern.lower() in sentence.lower() for the pattern "<name> <verb>".
Acts(sentence, name, verb) ==
    \E i \in 1..(Len(sentence) - 1) :
        Lower(sentence[i]) = Lower(name) /\ Lower(sentence[i + 1]) = verb

\* Mutant: the sentences are counted from 1.
DeathViolationShifted(name, idx) ==
    StoryViolation("character_death", "high",
                   << "Dead character", name, "is performing actions" >>, idx + 1,
                   << "Remove action by", name, "or revive the character first" >>)

DeathViolation(name, idx) ==
    StoryViolation("character_death", "high",
                   << "Dead character", name, "is performing actions" >>, idx,
                   << "Remove action by", name, "or revive the character first" >>)

RECURSIVE DeathByVerb(_, _, _, _)
DeathByVerb(sentence, idx, name, verbs) ==
    IF verbs = << >> THEN << >>
    ELSE (IF Acts(sentence, name, Head(verbs)) THEN << DeathViolation(name, idx) >> ELSE << >>)
         \o DeathByVerb(sentence, idx, name, Tail(verbs))

RECURSIVE DeathByCharacter(_, _, _)
DeathByCharacter(sentence, idx, chars) ==
    IF chars = << >> THEN << >>
    ELSE (IF Head(chars).status = "dead"
          THEN DeathByVerb(sentence, idx, Head(chars).name, ActionVerbs)
          ELSE << >>)
         \o DeathByCharacter(sentence, idx, Tail(chars))

RECURSIVE DeathBySentence(_, _, _)
DeathBySentence(sentences, idx, chars) ==
    IF sentences = << >> THEN << >>
    ELSE DeathByCharacter(Head(sentences), idx, chars)
         \o DeathBySentence(Tail(sentences), idx + 1, chars)

\* _check_character_death
CheckCharacterDeath(text, ss) == DeathBySentence(SplitDot(text), 0, ss.characters)

\* re.search(word, text, re.IGNORECASE)
Mentions(text, word) == \E i \in DOMAIN text : Lower(text[i]) = word

\* re.search("<first>.*<second>", text, re.IGNORECASE): "." matches no line break.
Then(text, first, second) ==
    \E i, j \in DOMAIN text :
        /\ i < j
        /\ Lower(text[i]) = first
        /\ Lower(text[j]) = second
        /\ \A k \in i..j : text[k] # "NL"

TemporalPairs == << << "morning", "evening" >>, << "yesterday", "today" >> >>

TemporalViolation ==
    StoryViolation("temporal_consistency", "medium",
                   << "Potentially confusing temporal sequence" >>, NoIdx,
                   << "Clarify the timeline of events" >>)

RECURSIVE TemporalByPair(_, _)
TemporalByPair(text, pairs) ==
    IF pairs = << >> THEN << >>
    ELSE (IF Mentions(text, Head(pairs)[1]) /\ Then(text, Head(pairs)[2], Head(pairs)[1])
          THEN << TemporalViolation >> ELSE << >>)
         \o TemporalByPair(text, Tail(pairs))

\* _check_temporal_consistency
CheckTemporalConsistency(text, ss) == TemporalByPair(text, TemporalPairs)

TraitWords == << "brave", "tall" >>

\* re.search(r"(\w+) was <trait>", text): case matters, one blank between words.
WasTrait(text, trait) ==
    \E i \in 1..(Len(text) - 2) :
        IsWord(text[i]) /\ text[i + 1] = "was" /\ text[i + 2] = trait

\* _check_character_traits raises: once a first pattern matches, the second
\* pattern (r"\1 was cowardly", a back reference to a group it does not have)
\* is compiled, and re.error is raised.
TraitsRaises(text) == \E k \in DOMAIN TraitWords : WasTrait(text, TraitWords[k])

\* _check_character_traits when it returns: no first pattern matched.
CheckCharacterTraits(text, ss) == << >>

\* self.rules in registration order.
RuleNames == << "character_death", "temporal_consistency", "character_consistency" >>

\* rule_func(text, story_state) raises; broken are the rules replaced by a failing one.
RuleRaises(rule, text, ss, broken) ==
    \/ rule \in broken
    \/ rule = "character_consistency" /\ TraitsRaises(text)

\* rule_func(text, story_state) when it returns.
RuleViolations(rule, text, ss) ==
    CASE rule = "character_death" -> CheckCharacterDeath(text, ss)
      [] rule = "temporal_consistency" -> CheckTemporalConsistency(text, ss)
      [] rule = "character_consistency" -> CheckCharacterTraits(text, ss)

\* One pass of the try block of validate: what the rule adds to violations.
TryRule(rule, text, ss, broken) ==
    IF RuleRaises(rule, text, ss, broken) THEN << >> ELSE RuleViolations(rule, text, ss)

RECURSIVE ValidateUntilError(_, _, _, _)
\* Mutant: one try block around the whole loop, the first failing rule ends it.
ValidateUntilError(rules, text, ss, broken) ==
    IF rules = << >> \/ RuleRaises(Head(rules), text, ss, broken) THEN << >>
    ELSE RuleViolations(Head(rules), text, ss)
         \o ValidateUntilError(Tail(rules), text, ss, broken)

RECURSIVE ValidateRules(_, _, _, _)
ValidateRules(rules, text, ss, broken) ==
    IF rules = << >> THEN << >>
    ELSE TryRule(Head(rules), text, ss, broken) \o ValidateRules(Tail(rules), text, ss, broken)

\* Mutant: the death rule logs what it finds in the event log of the state.
RuleWritesEvent(rule, text, ss) ==
    IF rule = "character_death" /\ CheckCharacterDeath(text, ss) # << >>
    THEN [ss EXCEPT !.events = Append(@, "violation")]
    ELSE ss

\* The state rule_func(text, story_state) leaves, returning or raising: the
\* rules read story_state.characters and assign to nothing of the state.
RuleWrites(rule, text, ss) == ss

RECURSIVE StateAfterRules(_, _, _)
\* The state after the loop of validate, each rule given the same object.
StateAfterRules(rules, text, ss) ==
    IF rules = << >> THEN ss
    ELSE StateAfterRules(Tail(rules), text, RuleWrites(Head(rules), text, ss))

\* SymbolicValidator.validate
Validate(text, ss, broken) == ValidateRules(RuleNames, text, ss, broken)

\* The rules validate printed "Error in rule ..." for.
RuleErrors(text, ss, broken) ==
    {RuleNames[k] : k \in {j \in DOMAIN RuleNames : RuleRaises(RuleNames[j], text, ss, broken)}}

\* ---------------------------------------------------------------- generator

\* The generation service's call raised.
ServiceFailure == << "ollama error" >>

\* The ollama package is not installed: no call is made.
NotInstalled == << "not installed" >>

\* What ollama.chat can do when it is called.
Replies(available) ==
    IF available THEN ServiceStories \cup {ServiceFailure} ELSE {NotInstalled}

\* Mutant: no except block, the failure is handed on in place of a story.
GenerateStoryNoFallback(available, reply) == IF available THEN reply ELSE MockStory

\* NeuralGenerator.generate_story: the service's text, or the placeholder when
\* the service is not installed or its call raises.
GenerateStory(available, reply) ==
    IF available /\ reply # ServiceFailure THEN reply ELSE MockStory

\* NeuralGenerator.improve_story
ImproveStory(original, vs, available, reply) ==
    IF vs = << >> THEN original ELSE GenerateStory(available, reply)

\* ------------------------------------------------------------------- engine

VARIABLES
    max_iterations,   \* StorytellerEngine.max_iterations
    nlp,              \* StoryParser.nlp is loaded
    ollama_available, \* NeuralGenerator.ollama_available
    broken,           \* the rules of validator.rules replaced by a failing one
    pc,               \* where generate_and_improve is
    prompt,           \* its argument
    current_story,
    story_state,
    iteration,
    violations,
    results,          \* the dict generate_and_improve builds and returns
    stored,           \* the rows of the stories table
    gen_log,          \* the calls of generate_story so far, each with its outcome
    error,            \* what propagated out of generate_and_improve
    t_state,          \* a StoryState used directly, as the tests do
    t_before,         \* t_state before the last operation on it
    t_call,           \* the last operation on t_state and its arguments
    t_pc,             \* "ready", or "parsing" inside _advanced_parse
    t_idx,            \* the index of the next sentence of _advanced_parse
    t_snap,           \* the dict the last to_dict returned, as it was then
    t_violations,     \* what the last validate returned
    t_error,          \* what the last operation raised
    t_calls           \* the operations so far

tvars ==
    << t_state, t_before, t_call, t_pc, t_idx, t_snap, t_violations, t_error, t_calls >>

evars ==
    << max_iterations, ollama_available, broken, pc, prompt, current_story,
       story_state, iteration, violations, results, stored, gen_log, error >>

vars == << nlp, evars, tvars >>

config == << max_iterations, nlp, ollama_available, broken >>

\* No StoryState is used directly.
TestIdle ==
    /\ t_state = FreshState
    /\ t_before = FreshState
    /\ t_call = [op |-> "none"]
    /\ t_pc = "ready"
    /\ t_idx = 0
    /\ t_snap = << >>
    /\ t_violations = << >>
    /\ t_error = "none"
    /\ t_calls = 0

\* The state after StorytellerEngine(max_iterations = n).
Init ==
    /\ max_iterations \in -1..MaxBound
    /\ nlp \in BOOLEAN
    /\ ollama_available \in BOOLEAN
    /\ broken = {}
    /\ pc = "idle"
    /\ prompt = ""
    /\ current_story = << >>
    /\ story_state = FreshState
    /\ iteration = 0
    /\ violations = << >>
    /\ results = [prompt |-> "", iterations |-> << >>, final_story |-> << >>,
                  total_violations_fixed |-> 0]
    /\ stored = << >>
    /\ gen_log = << >>
    /\ error = "none"
    /\ TestIdle

\* A test replaces one registered rule by a function that raises.
RegisterFailingRule(rule) ==
    /\ pc = "idle"
    /\ broken = {}
    /\ broken' = {rule}
    /\ UNCHANGED tvars
    /\ UNCHANGED << max_iterations, nlp, ollama_available, pc, prompt, current_story,
                    story_state, iteration, violations, results, stored, gen_log, error >>

\* for iteration in range(self.max_iterations)
InRange(i, max) == i < max

\* generate_and_improve up to the loop: the results dict, the first story, a
\* fresh World State.
Start(p, reply) ==
    /\ pc = "idle"
    /\ prompt' = p
    /\ results' = [prompt |-> p, iterations |-> << >>, final_story |-> << >>,
                   total_violations_fixed |-> 0]
    /\ current_story' = GenerateStory(ollama_available, reply)
    /\ gen_log' = Append(gen_log, [request |-> "generate", outcome |-> reply])
    /\ story_state' = FreshState
    /\ iteration' = 0
    /\ pc' = IF InRange(0, max_iterations) THEN "parse" ELSE "finish"
    /\ UNCHANGED tvars
    /\ UNCHANGED << config, violations, stored, error >>

\* parse_story on the recognition path: the service raises, or it answers and
\* misses some entities.
ParseAdvanced ==
    /\ pc = "parse"
    /\ nlp
    /\ \/ /\ pc' = "raised"
          /\ error' = "recognition"
          /\ UNCHANGED story_state
       \/ /\ \E miss \in SUBSET Entities(current_story) :
                story_state' = AdvancedParse(current_story, story_state, miss)
          /\ pc' = "validate"
          /\ UNCHANGED error
    /\ UNCHANGED tvars
    /\ UNCHANGED << config, prompt, current_story, iteration, violations, results,
                    stored, gen_log >>

\* parse_story on the heuristic path.
ParseSimple ==
    /\ pc = "parse"
    /\ ~nlp
    /\ \E order \in Orders(CandidateNames(current_story)) :
           story_state' = SimpleParse(current_story, story_state, order)
    /\ pc' = "validate"
    /\ UNCHANGED tvars
    /\ UNCHANGED << config, prompt, current_story, iteration, violations, results,
                    stored, gen_log, error >>

\* iteration_data
IterationData(i, story, vs, ss) ==
    [iteration |-> i + 1, story |-> story, violations |-> vs,
     violation_count |-> Len(vs), story_state |-> ToDict(ss)]

\* Mutant: the rules are evaluated before the text is extracted, against the
\* state the previous iteration left.
ValidateAndRecordBeforeExtract ==
    /\ pc = "validate"
    /\ violations' =
          Validate(current_story,
                   IF results.iterations = << >> THEN FreshState
                   ELSE results.iterations[Len(results.iterations)].story_state,
                   broken)
    /\ story_state' = StateAfterRules(RuleNames, current_story, story_state)
    /\ results' = [results EXCEPT !.iterations =
                      Append(@, IterationData(iteration, current_story, violations', story_state'))]
    /\ pc' = "store"
    /\ UNCHANGED tvars
    /\ UNCHANGED << config, prompt, current_story, iteration, stored,
                    gen_log, error >>

\* validate, and the iteration record appended to results['iterations'].
ValidateAndRecord ==
    /\ pc = "validate"
    /\ violations' = Validate(current_story, story_state, broken)
    /\ story_state' = StateAfterRules(RuleNames, current_story, story_state)
    /\ results' = [results EXCEPT !.iterations =
                      Append(@, IterationData(iteration, current_story, violations', story_state'))]
    /\ pc' = "store"
    /\ UNCHANGED tvars
    /\ UNCHANGED << config, prompt, current_story, iteration, stored,
                    gen_log, error >>

\* _store_iteration: the row is inserted, or sqlite raises.
StoreIteration ==
    /\ pc = "store"
    /\ \/ /\ stored' = Append(stored, [prompt |-> prompt, iteration |-> iteration + 1,
                                        story_text |-> current_story,
                                        violations |-> violations])
          /\ pc' = "decide"
          /\ UNCHANGED error
       \/ /\ pc' = "raised"
          /\ error' = "persistence"
          /\ UNCHANGED stored
    /\ UNCHANGED tvars
    /\ UNCHANGED << config, prompt, current_story, story_state, iteration, violations,
                    results, gen_log >>

\* Mutant: the bound is compared one iteration early.
ShouldBreakEarly(vs, i, max) == vs = << >> \/ i + 1 = max - 1

\* Mutant: the break no longer looks at the bound.
ShouldBreakWhenClean(vs, i, max) == vs = << >>

\* if not violations or iteration == self.max_iterations - 1: break
ShouldBreak(vs, i, max) == vs = << >> \/ i = max - 1

\* Mutant: the loop runs until an iteration has no violation, whatever the bound.
DecideUntilClean ==
    /\ pc = "decide"
    /\ \/ /\ violations = << >>
          /\ pc' = "finish"
          /\ UNCHANGED << current_story, iteration, gen_log >>
       \/ /\ violations # << >>
          /\ \E reply \in Replies(ollama_available) :
                /\ current_story' =
                       ImproveStory(current_story, violations, ollama_available, reply)
                /\ gen_log' = Append(gen_log, [request |-> "improve", outcome |-> reply])
          /\ iteration' = iteration + 1
          /\ pc' = "parse"
    /\ UNCHANGED tvars
    /\ UNCHANGED << config, prompt, story_state, violations, results, stored, error >>

\* Mutant: every iteration after the first starts from a new World State.
DecideFreshState ==
    /\ pc = "decide"
    /\ \/ /\ ShouldBreak(violations, iteration, max_iterations)
          /\ pc' = "finish"
          /\ UNCHANGED << current_story, story_state, iteration, gen_log >>
       \/ /\ ~ShouldBreak(violations, iteration, max_iterations)
          /\ \E reply \in Replies(ollama_available) :
                /\ current_story' =
                       ImproveStory(current_story, violations, ollama_available, reply)
                /\ gen_log' = Append(gen_log, [request |-> "improve", outcome |-> reply])
          /\ story_state' = FreshState
          /\ iteration' = iteration + 1
          /\ pc' = IF InRange(iteration + 1, max_iterations) THEN "parse" ELSE "finish"
    /\ UNCHANGED tvars
    /\ UNCHANGED << config, prompt, violations, results, stored, error >>

\* The end of the loop body: break, or ask for an improved story and go on.
Decide ==
    /\ pc = "decide"
    /\ \/ /\ ShouldBreak(violations, iteration, max_iterations)
          /\ pc' = "finish"
          /\ UNCHANGED << current_story, iteration, gen_log >>
       \/ /\ ~ShouldBreak(violations, iteration, max_iterations)
          /\ \E reply \in Replies(ollama_available) :
                /\ current_story' =
                       ImproveStory(current_story, violations, ollama_available, reply)
                /\ gen_log' = Append(gen_log, [request |-> "improve", outcome |-> reply])
          /\ iteration' = iteration + 1
          /\ pc' = IF InRange(iteration + 1, max_iterations) THEN "parse" ELSE "finish"
    /\ UNCHANGED tvars
    /\ UNCHANGED << config, prompt, story_state, violations, results, stored, error >>

\* Mutant: a negative difference is reported as 0.
ViolationsFixedClamped(its) ==
    IF its[1].violation_count >= its[Len(its)].violation_count
    THEN its[1].violation_count - its[Len(its)].violation_count
    ELSE 0

\* first_count - last_count
ViolationsFixed(its) == its[1].violation_count - its[Len(its)].violation_count

\* After the loop: the final story and the convergence metric; results is returned.
Finish ==
    /\ pc = "finish"
    /\ results' = [results EXCEPT
                      !.final_story = current_story,
                      !.total_violations_fixed =
                          IF results.iterations # << >> THEN ViolationsFixed(results.iterations)
                          ELSE @]
    /\ pc' = "done"
    /\ UNCHANGED tvars
    /\ UNCHANGED << config, prompt, current_story, story_state, iteration, violations,
                    stored, gen_log, error >>

\* The steps of one call of generate_and_improve.
Run == ParseAdvanced \/ ParseSimple \/ ValidateAndRecord \/ StoreIteration \/ Decide \/ Finish

Next ==
    \/ \E rule \in Range(RuleNames) : RegisterFailingRule(rule)
    \/ \E p \in Prompts, reply \in Replies(ollama_available) : Start(p, reply)
    \/ Run

Spec == Init /\ [][Next]_vars

\* ------------------------------------------- the components used directly

\* Largest number of operations applied to one StoryState.
MaxCalls == 3

\* A text with its two time markers on different lines.
StoryNight ==
    << "Tom", "ran", "at", "evening", ".", "NL",
       "Mary", "walked", "at", "morning", "." >>

TestTexts == {StoryDeath, StoryTrait, StoryNight}

TestNames == {"Tom", "Mary"}

\* Keyword arguments of add_character: none, fields of Character, and a name
\* ("age") that is no field of Character.
TestKwargs ==
    { << >>,
      [status |-> "dead"],
      [status |-> "dead", age |-> "old"],
      [location |-> "Paris", traits |-> << "brave" >>] }

\* The fields of the dict of to_dict that are the live state's own objects.
SharedWithLive == {"events", "world_facts"}

\* What a dict returned by to_dict holds when it is read while the state is live.
ReadSnapshot(snap, live) ==
    [f \in DOMAIN snap |-> IF f \in SharedWithLive THEN live[f] ELSE snap[f]]

\* The state before any direct use: the parser of a constructed engine.
TestInit ==
    /\ nlp \in BOOLEAN
    /\ max_iterations = DefaultMaxIterations
    /\ ollama_available = FALSE
    /\ broken = {}
    /\ pc = "idle"
    /\ prompt = ""
    /\ current_story = << >>
    /\ story_state = FreshState
    /\ iteration = 0
    /\ violations = << >>
    /\ results = [prompt |-> "", iterations |-> << >>, final_story |-> << >>,
                  total_violations_fixed |-> 0]
    /\ stored = << >>
    /\ gen_log = << >>
    /\ error = "none"
    /\ TestIdle

CanCall == t_pc = "ready" /\ t_calls < MaxCalls

\* story_state.add_character(name, **kwargs)
CallAddCharacter(name, kwargs) ==
    /\ CanCall
    /\ t_before' = t_state
    /\ t_call' = [op |-> "add_character", name |-> name, kwargs |-> kwargs]
    /\ IF AddCharacterRaises(t_state, name, kwargs)
       THEN t_error' = "TypeError" /\ t_state' = t_state
       ELSE t_error' = "none" /\ t_state' = AddCharacter(t_state, name, kwargs)
    /\ t_calls' = t_calls + 1
    /\ UNCHANGED << nlp, evars, t_pc, t_idx, t_snap, t_violations >>

\* parser.parse_story(text, story_state) with the recognition service: the
\* text is segmented, the loop over its sentences begins.
CallParseAdvanced(text) ==
    /\ CanCall
    /\ nlp
    /\ t_before' = t_state
    /\ t_call' = [op |-> "parse_story", text |-> text]
    /\ t_pc' = IF ServiceSentences(text) = << >> THEN "ready" ELSE "parsing"
    /\ t_idx' = 0
    /\ t_error' = "none"
    /\ t_calls' = t_calls + 1
    /\ UNCHANGED << nlp, evars, t_state, t_snap, t_violations >>

\* One sentence of _advanced_parse: the service raises, or it labels the
\* entities of the sentence (missing some) and the death patterns are applied.
ParseSentenceStep ==
    /\ t_pc = "parsing"
    /\ LET sentences == ServiceSentences(t_call.text)
           sentence == sentences[t_idx + 1]
       IN  \/ /\ t_error' = "recognition"
              /\ t_pc' = "ready"
              /\ UNCHANGED << t_state, t_before, t_call, t_idx >>
           \/ /\ \E miss \in SUBSET Entities(sentence) :
                    /\ t_state' = ParseSentence(sentence, t_idx, t_state, miss)
                    /\ t_call' = [op |-> "sentence", text |-> t_call.text,
                                  idx |-> t_idx, miss |-> miss]
              /\ t_before' = t_state
              /\ t_idx' = t_idx + 1
              /\ t_pc' = IF t_idx + 1 = Len(sentences) THEN "ready" ELSE "parsing"
              /\ UNCHANGED t_error
    /\ UNCHANGED << nlp, evars, t_snap, t_violations, t_calls >>

\* parser.parse_story(text, story_state) without the recognition service.
CallParseSimple(text) ==
    /\ CanCall
    /\ ~nlp
    /\ t_before' = t_state
    /\ t_call' = [op |-> "simple_parse", text |-> text]
    /\ \E order \in Orders(CandidateNames(text)) :
           t_state' = SimpleParse(text, t_state, order)
    /\ t_error' = "none"
    /\ t_calls' = t_calls + 1
    /\ UNCHANGED << nlp, evars, t_pc, t_idx, t_snap, t_violations >>

\* validator.validate(text, story_state)
CallValidate(text) ==
    /\ CanCall
    /\ t_before' = t_state
    /\ t_call' = [op |-> "validate", text |-> text]
    /\ t_violations' = Validate(text, t_state, broken)
    /\ t_state' = StateAfterRules(RuleNames, text, t_state)
    /\ t_error' = "none"
    /\ t_calls' = t_calls + 1
    /\ UNCHANGED << nlp, evars, t_pc, t_idx, t_snap >>

\* story_state.to_dict()
CallToDict ==
    /\ CanCall
    /\ t_before' = t_state
    /\ t_call' = [op |-> "to_dict"]
    /\ t_snap' = << ToDict(t_state) >>
    /\ t_error' = "none"
    /\ t_calls' = t_calls + 1
    /\ UNCHANGED << nlp, evars, t_state, t_pc, t_idx, t_violations >>

\* story_state.events.append(event)
AppendEvent(event) ==
    /\ CanCall
    /\ t_before' = t_state
    /\ t_call' = [op |-> "events.append"]
    /\ t_state' = [t_state EXCEPT !.events = Append(@, event)]
    /\ t_error' = "none"
    /\ t_calls' = t_calls + 1
    /\ UNCHANGED << nlp, evars, t_pc, t_idx, t_snap, t_violations >>

\* story_state.world_facts[key] = value
SetWorldFact(key, value) ==
    /\ CanCall
    /\ t_before' = t_state
    /\ t_call' = [op |-> "world_facts.set"]
    /\ t_state' = [t_state EXCEPT !.world_facts =
                      [k \in DOMAIN @ \cup {key} |-> IF k = key THEN value ELSE @[k]]]
    /\ t_error' = "none"
    /\ t_calls' = t_calls + 1
    /\ UNCHANGED << nlp, evars, t_pc, t_idx, t_snap, t_violations >>

TestNext ==
    \/ \E name \in TestNames, kwargs \in TestKwargs : CallAddCharacter(name, kwargs)
    \/ \E text \in TestTexts : CallParseAdvanced(text)
    \/ ParseSentenceStep
    \/ \E text \in TestTexts : CallParseSimple(text)
    \/ \E text \in TestTexts : CallValidate(text)
    \/ CallToDict
    \/ AppendEvent("the storm")
    \/ SetWorldFact("season", "winter")

\* StoryState, StoryParser and SymbolicValidator used directly.
TestSpec == TestInit /\ [][TestNext]_vars

\* ------------------------------------------------------------------- claims

Records == results.iterations
LastRecord == Records[Len(Records)]
Returned == pc = "done"
Ended == pc \in {"done", "raised"}
EveryRecordViolates == \A k \in DOMAIN Records : Records[k].violation_count >= 1
CallFailed(k) == gen_log[k].outcome \in {ServiceFailure, NotInstalled}

\* How far a call has got: four steps to an iteration, then the return.
Stage ==
    CASE pc \in {"idle", "parse"} -> 0
      [] pc = "validate" -> 1
      [] pc = "store" -> 2
      [] pc = "decide" -> 3
      [] pc = "finish" -> 4
      [] pc \in {"done", "raised"} -> 5
Progress == 4 * iteration + Stage

\* C1: for an iteration bound N >= 1, whatever the generation service answers
\* and however long violations persist, a run of generate_and_improve never
\* holds more than N iteration records and ends (it returns or raises): every
\* step of the run advances Progress and Progress never exceeds 4 * N + 1, so
\* a run has at most 4 * N + 2 steps.
C1_TerminatesWithinBound ==
    /\ [](max_iterations >= 1 =>
            (Len(Records) <= max_iterations /\ Progress <= 4 * max_iterations + 1))
    /\ [][Run => Progress' > Progress]_vars

\* A run that returned at the bound with violations left in its last iteration.
C1_Witness ==
    /\ Returned
    /\ max_iterations = MaxBound
    /\ Len(Records) = max_iterations
    /\ EveryRecordViolates

\* C2: when the loop of a run with bound N >= 1 is left and every iteration
\* produced at least one violation, there are exactly N iteration records.
C2_ExactlyBoundRecords ==
    (pc \in {"finish", "done"} /\ max_iterations >= 1 /\ EveryRecordViolates)
        => Len(Records) = max_iterations

\* The default bound 3: three records, each with a violation.
C2_Witness ==
    /\ Returned
    /\ max_iterations = DefaultMaxIterations
    /\ EveryRecordViolates
    /\ Len(Records) = DefaultMaxIterations

\* The loop has reached an iteration that ends it.
LoopStopped ==
    /\ Records # << >>
    /\ LastRecord.violation_count = 0 \/ Len(Records) = max_iterations

\* C3: from the first iteration without violations (or the one at the bound)
\* on, no story is requested from the generator and no record is appended,
\* and the final story returned is the story of the last record.
C3_StopsAtFirstCleanIteration ==
    /\ [][LoopStopped => (gen_log' = gen_log /\ results'.iterations = Records)]_vars
    /\ []((Returned /\ Records # << >>) => results.final_story = LastRecord.story)

\* A run that converged in its second iteration, before the bound.
C3_Witness ==
    /\ Returned
    /\ Len(Records) = 2
    /\ max_iterations > 2
    /\ Records[1].violation_count > 0
    /\ LastRecord.violation_count = 0
    /\ Len(gen_log) = 2

\* C4: the reported violations_fixed is the first record's violation_count
\* minus the last record's, negative values included.
C4_ViolationsFixedUnclamped ==
    (Returned /\ Records # << >>)
        => results.total_violations_fixed
               = Records[1].violation_count - LastRecord.violation_count

\* A run whose last iteration has more violations than its first.
C4_Witness ==
    /\ Returned
    /\ Len(Records) >= 2
    /\ LastRecord.violation_count > Records[1].violation_count
    /\ results.total_violations_fixed < 0

SnapshotNames(rec) ==
    {rec.story_state.characters[i].name : i \in DOMAIN rec.story_state.characters}

\* C5: the character names and the locations of iteration k + 1 include those
\* of iteration k, and the live World State includes those of every record.
C5_WorldStateAccumulates ==
    /\ \A k \in 1..(Len(Records) - 1) :
          /\ SnapshotNames(Records[k]) \subseteq SnapshotNames(Records[k + 1])
          /\ Records[k].story_state.locations \subseteq Records[k + 1].story_state.locations
    /\ \A k \in DOMAIN Records :
          /\ SnapshotNames(Records[k]) \subseteq Names(story_state)
          /\ Records[k].story_state.locations \subseteq story_state.locations

\* The second text names neither the character nor the place of the first,
\* and both are still there.
C5_Witness ==
    /\ Len(Records) >= 2
    /\ \E n \in SnapshotNames(Records[1]) :
          n \notin Range(Records[2].story) /\ n \in SnapshotNames(Records[2])
    /\ \E l \in Records[1].story_state.locations :
          l \notin Range(Records[2].story) /\ l \in Records[2].story_state.locations

RulePosition(rule) == CHOOSE k \in DOMAIN RuleNames : RuleNames[k] = rule
Raising == {r \in Range(RuleNames) : RuleRaises(r, current_story, story_state, broken)}

\* C6: after validate, the violation list holds nothing of a rule that raised,
\* holds the violations of every other rule as that rule alone returns them,
\* and is in registration order; the run goes on to store the record.
C6_RuleIsolation ==
    pc = "store" =>
        /\ \A r \in Raising : \A k \in DOMAIN violations : violations[k].rule_name # r
        /\ \A r \in Range(RuleNames) \ Raising :
              SelectSeq(violations, LAMBDA v : v.rule_name = r)
                  = RuleViolations(r, current_story, story_state)
        /\ \A i, j \in DOMAIN violations :
              i < j => RulePosition(violations[i].rule_name)
                           <= RulePosition(violations[j].rule_name)
        /\ LastRecord.violations = violations

\* The first rule raised, and a later rule's violation is in the list.
C6_Witness ==
    /\ pc = "store"
    /\ "character_death" \in Raising
    /\ \E k \in DOMAIN violations : violations[k].rule_name = "temporal_consistency"

\* C7: a run with an iteration bound <= 0 or with an empty prompt makes no
\* call of the generator and returns no result.
C7_RejectsBadConfiguration ==
    (pc # "idle" /\ (max_iterations <= 0 \/ prompt = ""))
        => (gen_log = << >> /\ ~Returned)

\* C8: a failure to persist an iteration record does not end the run.
C8_PersistenceFailureNeverAborts == ~(pc = "raised" /\ error = "persistence")

\* C9: a call of the generator that failed yields the placeholder narrative
\* as the story of its iteration, nothing a run raises comes from the
\* generator, and a run with bound N >= 1 that returns has a final story and
\* at least one record.
C9_GenerationFailureFallsBack ==
    /\ \A k \in DOMAIN gen_log :
          CallFailed(k) =>
              /\ k \in DOMAIN Records => Records[k].story = MockStory
              /\ k = Len(gen_log) => current_story = MockStory
    /\ current_story # ServiceFailure
    /\ (Returned /\ max_iterations >= 1) =>
          /\ Len(Records) >= 1
          /\ results.final_story \in ServiceStories \cup {MockStory}

\* The service is installed and every call of it failed; the run returned.
C9_Witness ==
    /\ Returned
    /\ ollama_available
    /\ max_iterations >= 1
    /\ \A k \in DOMAIN gen_log : gen_log[k].outcome = ServiceFailure
    /\ results.final_story = MockStory
    /\ Len(Records) = 1

\* C10: parse_story raises nothing to its caller.
C10_ParseNeverRaises == ~(pc = "raised" /\ error = "recognition")

\* --------------------------------------------------- claims on direct use

\* The last operation was add_character on a name the state had (had not).
UpdatedExisting == t_call.op = "add_character" /\ t_call.name \in Names(t_before)
AddedAbsent == t_call.op = "add_character" /\ t_call.name \notin Names(t_before)

\* The field names Character accepts besides name.
SuppliableFields == {"status", "location", "traits", "last_mentioned"}

\* C11: add_character on a name already present overwrites exactly the
\* supplied fields that are fields of Character, leaves the other fields and
\* every other character as they were, and ignores an unknown field name
\* without raising.
C11_UpdateOverwritesSuppliedFields ==
    UpdatedExisting =>
        /\ t_error = "none"
        /\ Len(t_state.characters) = Len(t_before.characters)
        /\ \A i \in DOMAIN t_before.characters :
              LET old == t_before.characters[i]
                  new == t_state.characters[i]
              IN  IF old.name = t_call.name
                  THEN /\ DOMAIN new = CharacterFields
                       /\ new.name = old.name
                       /\ \A f \in SuppliableFields :
                             new[f] = IF f \in DOMAIN t_call.kwargs
                                      THEN t_call.kwargs[f] ELSE old[f]
                  ELSE new = old
        /\ t_state.events = t_before.events
        /\ t_state.world_facts = t_before.world_facts
        /\ t_state.locations = t_before.locations
        /\ t_state.genre = t_before.genre

\* An update with a known and an unknown field name, of a character whose
\* last_mentioned was set by a parse, next to another character.
C11_Witness ==
    /\ UpdatedExisting
    /\ "age" \in DOMAIN t_call.kwargs
    /\ Len(t_state.characters) >= 2
    /\ CharOf(t_before, t_call.name).status = "alive"
    /\ CharOf(t_state, t_call.name).status = "dead"
    /\ CharOf(t_state, t_call.name).last_mentioned >= 1

\* The character add_character creates for the last call: the defaults,
\* overridden by the supplied fields.
Created ==
    /\ t_call.name \in Names(t_state)
    /\ LET kw == t_call.kwargs
           char == CharOf(t_state, t_call.name)
       IN  /\ char.name = t_call.name
           /\ char.status = IF "status" \in DOMAIN kw THEN kw.status ELSE "alive"
           /\ char.location = IF "location" \in DOMAIN kw THEN kw.location ELSE "unknown"
           /\ char.traits = IF "traits" \in DOMAIN kw THEN kw.traits ELSE << >>
           /\ char.last_mentioned =
                 IF "last_mentioned" \in DOMAIN kw THEN kw.last_mentioned ELSE 0

\* C12 as stated: add_character on an absent name creates the character with
\* the defaults overridden by the supplied fields. Violated by a supplied
\* field name that Character does not have.
C12_AbsentNameIsCreated == AddedAbsent => Created

\* C12: add_character on an absent name whose supplied field names are all
\* fields of Character creates the character, keyed by its name, with the
\* defaults (alive, unknown, no traits, 0) overridden by the supplied fields;
\* with any other field name it raises TypeError and creates nothing.
C12_CreatesOrRaises ==
    AddedAbsent =>
        IF DOMAIN t_call.kwargs \subseteq SuppliableFields
        THEN /\ t_error = "none"
             /\ Created
             /\ Len(t_state.characters) = Len(t_before.characters) + 1
             /\ SubSeq(t_state.characters, 1, Len(t_before.characters))
                    = t_before.characters
        ELSE /\ t_error = "TypeError"
             /\ t_state = t_before

\* A character created dead, its other fields at their defaults.
C12_Witness ==
    /\ AddedAbsent
    /\ t_error = "none"
    /\ "status" \in DOMAIN t_call.kwargs
    /\ CharOf(t_state, t_call.name).status = "dead"
    /\ CharOf(t_state, t_call.name).location = "unknown"
    /\ Len(t_state.characters) >= 2

\* C13 as stated: what a dict returned by to_dict holds is what it held when
\* it was returned, whatever happens to the live state afterwards. Violated:
\* the dict holds the state's own event list and world-facts dict.
C13_SnapshotIndependent ==
    t_snap # << >> => ReadSnapshot(t_snap[1], t_state) = t_snap[1]

\* The last operation was validate(t_call.text, t_state).
Validated == t_call.op = "validate"

\* The violations of one rule in what validate returned.
ViolationsOf(rule) == {v \in Range(t_violations) : v.rule_name = rule}

\* The sentence holds the name immediately followed by one of the four verbs.
FollowedByVerb(sentence, name) ==
    \E i \in DOMAIN sentence :
        /\ i < Len(sentence)
        /\ Lower(sentence[i]) = Lower(name)
        /\ Lower(sentence[i + 1]) \in {"said", "walked", "ran", "looked"}

\* C14: validate returns a high character_death violation for every pair of
\* a sentence and a dead character whose name is immediately followed by
\* said, walked, ran or looked in that sentence, with the index of that
\* sentence; a character that is not dead yields none.
C14_DeadCharacterActs ==
    Validated =>
        LET sentences == SplitDot(t_call.text)
        IN  /\ \A k \in DOMAIN sentences : \A i \in DOMAIN t_state.characters :
                  LET char == t_state.characters[i]
                  IN  (char.status = "dead" /\ FollowedByVerb(sentences[k], char.name))
                          => \E v \in ViolationsOf("character_death") :
                                 /\ v.severity = "high"
                                 /\ v.sentence_idx = k - 1
                                 /\ v.description[2] = char.name
            /\ \A v \in ViolationsOf("character_death") :
                  /\ v.severity = "high"
                  /\ v.description[2] \in Names(t_state)
                  /\ CharOf(t_state, v.description[2]).status = "dead"
                  /\ v.sentence_idx + 1 \in DOMAIN sentences
                  /\ FollowedByVerb(sentences[v.sentence_idx + 1], v.description[2])

\* A dead character acts in the second sentence and a living one in the
\* first: one violation, with index 1.
C14_Witness ==
    /\ Validated
    /\ \E v \in ViolationsOf("character_death") : v.sentence_idx = 1
    /\ \E i \in DOMAIN t_state.characters :
          /\ t_state.characters[i].status = "alive"
          /\ FollowedByVerb(SplitDot(t_call.text)[1], t_state.characters[i].name)
    /\ Cardinality(ViolationsOf("character_death")) = 1

\* The word occurs in the text, and the other one somewhere after it.
FollowedAnywhere(text, first, second) ==
    \E i, j \in DOMAIN text :
        i < j /\ Lower(text[i]) = first /\ Lower(text[j]) = second

\* C15 as stated: for a text with "evening" followed anywhere later by
\* "morning", validate returns a medium temporal_consistency violation
\* without a sentence index, whatever the World State. Violated when a line
\* break lies between the two words.
C15_EveningThenMorning ==
    (Validated /\ FollowedAnywhere(t_call.text, "evening", "morning")) =>
        \E v \in ViolationsOf("temporal_consistency") :
            v.severity = "medium" /\ v.sentence_idx = NoIdx

\* The characters of every World State a run holds or has recorded.
RunCharacters ==
    Range(story_state.characters)
        \cup UNION {Range(Records[k].story_state.characters) : k \in DOMAIN Records}

\* C16: in every state the extractor reaches from a fresh World State, the
\* status of every character is alive, dead or unknown.
C16_StatusInDomain ==
    \A char \in RunCharacters : char.status \in {"alive", "dead", "unknown"}

\* After a second text was parsed the state holds a dead and a living character.
C16_Witness ==
    /\ Len(Records) >= 1
    /\ pc = "validate"
    /\ \E char \in Range(story_state.characters) : char.status = "dead"
    /\ \E char \in Range(story_state.characters) : char.status = "alive"

\* The last step was a step of the extractor: one sentence of the
\* recognition path, or the heuristic path.
ExtractorStep == t_call.op \in {"sentence", "simple_parse"}

\* The sentence the last step of the recognition path processed.
StepSentence == ServiceSentences(t_call.text)[t_call.idx + 1]

\* C17: no step of the extractor changes the status of a dead character; a
\* re-mention that writes a new last_mentioned leaves it dead.
C17_DeadStaysDead ==
    ExtractorStep =>
        \A name \in Names(t_before) :
            CharOf(t_before, name).status = "dead"
                => name \in Names(t_state) /\ CharOf(t_state, name).status = "dead"

\* A dead character is mentioned again: last_mentioned changes, the status
\* does not.
C17_Witness ==
    /\ t_call.op = "sentence"
    /\ \E name \in Names(t_before) :
          /\ CharOf(t_before, name).status = "dead"
          /\ name \in Range(StepSentence) \ t_call.miss
          /\ name \notin DeathMatches(StepSentence)
          /\ CharOf(t_state, name).last_mentioned # CharOf(t_before, name).last_mentioned
          /\ CharOf(t_state, name).status = "dead"

\* C18 as stated: no step of the extractor lowers a character's
\* last_mentioned, the steps over a later text included. Violated when the
\* later text mentions the character in an earlier sentence.
C18_LastMentionedNeverDecreases ==
    ExtractorStep =>
        \A name \in Names(t_before) :
            CharOf(t_state, name).last_mentioned >= CharOf(t_before, name).last_mentioned

\* C18: a step of the recognition path writes the index of its sentence to
\* the characters it detects and leaves last_mentioned of the others; while
\* the first text is parsed into a fresh World State no last_mentioned
\* decreases.
C18_MonotoneWithinFirstText ==
    t_call.op = "sentence" =>
        /\ \A name \in Names(t_state) :
              \/ CharOf(t_state, name).last_mentioned = t_call.idx
              \/ /\ name \in Names(t_before)
                 /\ CharOf(t_state, name).last_mentioned
                        = CharOf(t_before, name).last_mentioned
        /\ \A name \in (PersonNames \cap Range(StepSentence)) \ t_call.miss :
              /\ name \in Names(t_state)
              /\ CharOf(t_state, name).last_mentioned = t_call.idx
        /\ t_calls = 1 =>
              \A name \in Names(t_before) :
                  CharOf(t_state, name).last_mentioned
                      >= CharOf(t_before, name).last_mentioned

\* In the first text a character is mentioned again, two sentences after its
\* first mention: it gets the index of the later sentence.
C18_Witness ==
    /\ t_call.op = "sentence"
    /\ t_calls = 1
    /\ \E name \in Names(t_before) :
          /\ CharOf(t_before, name).last_mentioned = 0
          /\ CharOf(t_state, name).last_mentioned = 2
          /\ t_call.idx = 2

\* C19: a step of the recognition path registers the characters it detects
\* before it applies the death patterns: a detected character whose death
\* the sentence states is in the World State with status dead after the
\* step, also when the sentence is its first mention.
C19_RegisteredBeforeDeath ==
    t_call.op = "sentence" =>
        \A name \in (DeathMatches(StepSentence) \cap PersonNames) \ t_call.miss :
            name \in Names(t_state) /\ CharOf(t_state, name).status = "dead"

\* A character first mentioned in the sentence that states its death.
C19_Witness ==
    /\ t_call.op = "sentence"
    /\ \E name \in DeathMatches(StepSentence) \ Names(t_before) :
          name \in Names(t_state) /\ CharOf(t_state, name).status = "dead"

\* The names the death patterns match in the text of the last extractor step.
DeathsStated ==
    IF t_call.op = "sentence" THEN DeathMatches(StepSentence)
    ELSE UNION {DeathMatches(SplitDot(t_call.text)[k]) : k \in DOMAIN SplitDot(t_call.text)}

\* C20 as stated: on either path, a character of the World State that a
\* death pattern of the parsed text names has status dead afterwards.
\* Violated on the heuristic path, which applies no death pattern.
C20_DeathOnEitherPath ==
    ExtractorStep =>
        \A name \in DeathsStated \cap Names(t_state) :
            CharOf(t_state, name).status = "dead"

\* C21: validate and its rules leave the World State as it was: characters
\* with all their fields, event log, world facts, locations and genre are
\* the same before and after the call, whether violations are found or a
\* rule fails.
C21_ValidateLeavesState ==
    Validated =>
        /\ t_state.characters = t_before.characters
        /\ t_state.events = t_before.events
        /\ t_state.world_facts = t_before.world_facts
        /\ t_state.locations = t_before.locations
        /\ t_state.genre = t_before.genre

\* A validate that found a dead character acting while its third rule
\* failed, on a state with a character and an event.
C21_Witness ==
    /\ Validated
    /\ ViolationsOf("character_death") # {}
    /\ TraitsRaises(t_call.text)
    /\ t_state.characters # << >>
    /\ t_state.events # << >>

\* The World State the iteration of record k started from.
StateBefore(k) == IF k = 1 THEN FreshState ELSE Records[k - 1].story_state

\* snap is a snapshot of what parse_story makes of prev and the story.
ExtractedFrom(story, prev, snap) ==
    IF nlp
    THEN \E miss \in SUBSET Entities(story) : snap = ToDict(AdvancedParse(story, prev, miss))
    ELSE \E order \in Orders(CandidateNames(story)) :
             snap = ToDict(SimpleParse(story, prev, order))

\* C22: every iteration extracts, then validates, then records: record k has
\* the number k, the story text of its iteration, the violations of that text
\* against the state of its snapshot, and their count; when it is appended
\* its snapshot is the live World State, which is what extracting that text
\* made of the state of the iteration before.
C22_ExtractValidateRecord ==
    /\ \A k \in DOMAIN Records :
          LET rec == Records[k]
          IN  /\ rec.iteration = k
              /\ rec.violations = Validate(rec.story, rec.story_state, broken)
              /\ rec.violation_count = Len(rec.violations)
    /\ pc = "validate" => Len(Records) = iteration
    /\ pc \in {"store", "decide"} =>
          /\ Len(Records) = iteration + 1
          /\ LastRecord.story = current_story
          /\ LastRecord.violations = violations
          /\ LastRecord.story_state = ToDict(story_state)
    /\ pc = "store" =>
          ExtractedFrom(current_story, StateBefore(Len(Records)), LastRecord.story_state)

\* Two records; the first holds a violation that exists only because its
\* own text was extracted before it was validated.
C22_Witness ==
    /\ Len(Records) = 2
    /\ pc = "store"
    /\ Records[1].violations # Validate(Records[1].story, FreshState, broken)
    /\ Records[2].story # Records[1].story
    /\ Records[2].violation_count >= 1

\* The names of the dead characters of a World State or a snapshot of one.
DeadIn(ss) == {ss.characters[i].name : i \in {j \in DOMAIN ss.characters : ss.characters[j].status = "dead"}}

\* The name is immediately followed by one of the four verbs in a sentence
\* of the story.
ActsIn(story, name) ==
    \E k \in DOMAIN SplitDot(story) : FollowedByVerb(SplitDot(story)[k], name)

\* The names the death patterns match somewhere in the story.
DeathsIn(story) ==
    UNION {DeathMatches(SplitDot(story)[k]) : k \in DOMAIN SplitDot(story)}

\* C23: a character dead in the snapshot of an iteration is dead in the
\* snapshot of every later iteration of the run and in the live World State,
\* whatever the later texts state; when it acts in a later text, the record
\* of that iteration holds a character_death violation naming it (the death
\* rule being the validator's own).
C23_DeathPersistsAcrossIterations ==
    /\ \A k \in DOMAIN Records :
          DeadIn(Records[k].story_state) \subseteq DeadIn(story_state)
    /\ \A k, j \in DOMAIN Records :
          k < j =>
              /\ DeadIn(Records[k].story_state) \subseteq DeadIn(Records[j].story_state)
              /\ \A name \in DeadIn(Records[k].story_state) :
                    (ActsIn(Records[j].story, name) /\ "character_death" \notin broken)
                        => \E v \in Range(Records[j].violations) :
                               /\ v.rule_name = "character_death"
                               /\ v.severity = "high"
                               /\ v.description[2] = name

\* A character died in the first text; the second text does not state the
\* death and has the character act: the second record holds the violation.
C23_Witness ==
    /\ Len(Records) >= 2
    /\ \E name \in DeadIn(Records[1].story_state) :
          /\ name \notin DeathsIn(Records[2].story)
          /\ ActsIn(Records[2].story, name)
          /\ \E v \in Range(Records[2].violations) :
                v.rule_name = "character_death" /\ v.description[2] = name

====
